---------------------------- MODULE Spec2Model ----------------------------
(***************************************************************************)
(* Model of the nutrition-data reduction scripts                            *)
(*   Nutrition_Data/prepare_foods_csv_chunks_limited.py  (strict variant)   *)
(*   Nutrition_Data/prepare_foods_csv_chunks.py          (simple variant)   *)
(*                                                                         *)
(* Text cells are sequences of one-character strings, a cell being the text *)
(* astype(str) gives for it; a missing cell (NaN after read_csv) is the     *)
(* token NA.  Floats are exact decimals                                     *)
(* [nan, n, d] standing for n/d with d a power of ten, in lowest terms, or  *)
(* NaN.  Of the 40 nutrient columns two are modelled: energy-kcal_100g      *)
(* (which the simple variant treats apart) and fiber_100g (which stands     *)
(* for the other 39, all mapped by the same expression).                    *)
(***************************************************************************)
EXTENDS Integers, Sequences, FiniteSets, TLC

VARIABLES
    variant,     \* which script runs: "strict" or "simple"
    columns,     \* column names of the input file's header
    input,       \* the rows read from the input file so far, in file order
    eof,         \* the reader has returned its last (short) chunk
    pc,          \* "run" | "done" | "crashed"
    seen_pairs,  \* strict: the set of (name, brand) keys seen so far
    daCount,     \* the running count that is printed
    daHeader,    \* whether the next to_csv call writes the header
    output,      \* the lines of the output file
    written,     \* for each data row of output, the index of its input row
    log,         \* the counts printed by the progress line
    df,          \* the row indices left in the chunk after each filter step
    cell,        \* cell-level runs: the raw cell
    cleaned,     \* cell-level runs: clean_numeric of the cell
    servings,    \* cell-level runs: the servings value mapped from the cell
    cellpc       \* cell-level runs: which mappings have been applied

vars == <<variant, columns, input, eof, pc, seen_pairs, daCount, daHeader,
          output, written, log, df, cell, cleaned, servings, cellpc>>

pipeVars == <<variant, columns, input, eof, pc, seen_pairs, daCount, daHeader,
              output, written, log, df>>

cellVars == <<cell, cleaned, servings, cellpc>>

---------------------------------------------------------------------------
(* Bounds of the model *)

\* total number of rows in the input file
MaxRecords == 3

\* longest cell enumerated character by character in the cell-level runs
MaxLen == 3

\* rows per chunk (10**4 in the scripts, scaled down)
chunksize == 2

---------------------------------------------------------------------------
(* Text *)

NA == <<"NaN">>

isna(c) == c = NA

Digits == {"0", "1", "2", "3", "4", "5", "6", "7", "8", "9"}

DigitVal(c) ==
    CASE c = "0" -> 0 [] c = "1" -> 1 [] c = "2" -> 2 [] c = "3" -> 3
      [] c = "4" -> 4 [] c = "5" -> 5 [] c = "6" -> 6 [] c = "7" -> 7
      [] c = "8" -> 8 [] c = "9" -> 9

\* str(x) / astype(str): a missing value prints as "nan"
astype_str(c) == IF isna(c) THEN <<"n", "a", "n">> ELSE c

LowerChar(ch) ==
    CASE ch = "A" -> "a" [] ch = "B" -> "b" [] OTHER -> ch

lower(s) == [i \in 1..Len(s) |-> LowerChar(s[i])]

RECURSIVE lstrip(_)
lstrip(s) == IF s # <<>> /\ Head(s) = " " THEN lstrip(Tail(s)) ELSE s

RECURSIVE rstrip(_)
rstrip(s) ==
    IF s # <<>> /\ s[Len(s)] = " " THEN rstrip(SubSeq(s, 1, Len(s) - 1)) ELSE s

strip(s) == rstrip(lstrip(s))

\* str.replace(old, new, regex=False) for a one-character old
RECURSIVE str_replace(_, _, _)
str_replace(s, old, new) ==
    IF s = <<>> THEN <<>>
    ELSE (IF Head(s) = old THEN new ELSE <<Head(s)>>)
             \o str_replace(Tail(s), old, new)

---------------------------------------------------------------------------
(* Numbers *)

NaNf == [nan |-> TRUE, n |-> 0, d |-> 1]

RECURSIVE Reduce(_, _)
Reduce(n, d) ==
    IF d > 1 /\ n % 10 = 0 THEN Reduce(n \div 10, d \div 10)
    ELSE [nan |-> FALSE, n |-> n, d |-> d]

Num(n, d) == Reduce(n, d)

Zero == Num(0, 1)

One == Num(1, 1)

\* comparisons of floats; every comparison with NaN is false
Lt(x, k) == ~x.nan /\ x.n < k * x.d

Gt(x, k) ==
    /\ ~x.nan
    /\ x.n >= 0
    /\ \/ x.n \div x.d > k
       \/ x.n \div x.d = k /\ x.n % x.d > 0

Le(x, k) == ~x.nan /\ ~Gt(x, k)

\* x >= 0.5
GeHalf(x) == ~x.nan /\ 2 * x.n >= x.d

RECURSIVE IntOf(_)
IntOf(s) ==
    IF s = <<>> THEN 0
    ELSE 10 * IntOf(SubSeq(s, 1, Len(s) - 1)) + DigitVal(s[Len(s)])

RECURSIVE Pow10(_)
Pow10(k) == IF k = 0 THEN 1 ELSE 10 * Pow10(k - 1)

\* number of digits of s starting at position p
RECURSIVE DigitRun(_, _)
DigitRun(s, p) ==
    IF p <= Len(s) /\ s[p] \in Digits THEN 1 + DigitRun(s, p + 1) ELSE 0

IsSign(ch) == ch \in {"-", "+"}

\* value of a numeral  [sign] digits [. digits]  holding at least one digit
ParseNumeral(s) ==
    LET neg  == s # <<>> /\ s[1] = "-"
        p    == IF s # <<>> /\ IsSign(s[1]) THEN 2 ELSE 1
        k    == DigitRun(s, p)
        dot  == p + k <= Len(s) /\ s[p + k] = "."
        f    == IF dot THEN DigitRun(s, p + k + 1) ELSE 0
        ip   == SubSeq(s, p, p + k - 1)
        fp   == IF dot THEN SubSeq(s, p + k + 1, p + k + f) ELSE <<>>
        mag  == IntOf(ip \o fp)
    IN  Num(IF neg THEN -mag ELSE mag, Pow10(f))

\* whether s as a whole is a numeral:  [sign] (digits [. [digits]] | . digits)
IsNumeral(s) ==
    LET p   == IF s # <<>> /\ IsSign(s[1]) THEN 2 ELSE 1
        k   == DigitRun(s, p)
        dot == p + k <= Len(s) /\ s[p + k] = "."
        f   == IF dot THEN DigitRun(s, p + k + 1) ELSE 0
        end == IF dot THEN p + k + f ELSE p + k - 1
    IN  /\ k + f >= 1
        /\ end = Len(s)

\* pd.to_numeric(cell, errors="coerce"): the whole cell, blanks around it
\* ignored, must be one numeral; anything else is NaN
to_numeric(c) ==
    IF isna(c) THEN NaNf
    ELSE IF IsNumeral(strip(c)) THEN ParseNumeral(strip(c))
    ELSE NaNf

\* end of the match of  [-+]?\d*\.?\d+  that starts at position i, 0 if none
MatchEnd(s, i) ==
    LET p   == IF IsSign(s[i]) THEN i + 1 ELSE i
        k   == DigitRun(s, p)
        dot == p + k <= Len(s) /\ s[p + k] = "."
        f   == IF dot THEN DigitRun(s, p + k + 1) ELSE 0
    IN  IF f >= 1 THEN p + k + f
        ELSE IF k >= 1 THEN p + k - 1
        ELSE 0

\* str.extract(r"([-+]?\d*\.?\d+)")[0]: the leftmost match, NA if none
str_extract(s) ==
    LET starts == {i \in 1..Len(s) : MatchEnd(s, i) # 0}
    IN  IF starts = {} THEN NA
        ELSE LET i == CHOOSE j \in starts : \A m \in starts : j <= m
             IN  SubSeq(s, i, MatchEnd(s, i))

fillna(x, v) == IF x.nan THEN v ELSE x

UpperClip == 999999

\* .clip(0, 999_999)
clip(x) ==
    IF Lt(x, 0) THEN Zero
    ELSE IF Gt(x, UpperClip) THEN Num(UpperClip, 1)
    ELSE x

\* clean_numeric on one cell of a column that is present
clean_numeric(c) ==
    LET s   == str_replace(astype_str(c), ",", <<".">>)
        num == str_extract(s)
    IN  clip(fillna(to_numeric(num), Zero))

ServingsMax == 99

ServingsDefaultKeepsZero(x) ==
    IF x.nan \/ Lt(x, 0) \/ Gt(x, ServingsMax) THEN One ELSE x

\* lambda x: 1.0 if (pd.isna(x) or x <= 0 or x > 99) else x
ServingsDefault(x) ==
    IF x.nan \/ Le(x, 0) \/ Gt(x, ServingsMax) THEN One ELSE x

\* the "servings" field: pd.to_numeric(serving_quantity, errors="coerce").apply(...)
ServingsOf(c) == ServingsDefault(to_numeric(c))

---------------------------------------------------------------------------
(* The input file *)

NameCol == "product_name"

BrandCol == "brands"

KcalCol == "energy-kcal_100g"

FiberCol == "fiber_100g"

SizeCol == "serving_size"

QtyCol == "serving_quantity"

\* the completeness-score columns, in the order the strict variant looks for them
Candidates == <<"data_quality_info_score", "data_quality_score", "completeness">>

CandidateSet == {Candidates[i] : i \in 1..Len(Candidates)}

NutrientSourceCols == {KcalCol, FiberCol}

\* columns both scripts read without a guard: a file lacking one of them
\* stops the script with an exception before anything is written
RequiredCols == {NameCol, BrandCol, SizeCol, QtyCol}

AllCols == RequiredCols \cup NutrientSourceCols \cup CandidateSet

\* the score columns of a file: all three, or the first ones missing
ScoreColumnSets ==
    {{Candidates[j] : j \in i..Len(Candidates)} : i \in 1..(Len(Candidates) + 1)}

\* the headers a strict run may meet: every choice of score columns with both
\* nutrient columns, and a nutrient column missing
ColumnSets ==
    {RequiredCols \cup NutrientSourceCols \cup S : S \in ScoreColumnSets}
        \cup {AllCols \ {c} : c \in NutrientSourceCols}

\* the simple variant reads no score column
SimpleColumnSets == {AllCols} \cup {AllCols \ {c} : c \in NutrientSourceCols}

Row(name, brand, kcal, fiber, s1, s2, s3, size, qty) ==
    [c \in AllCols |->
        CASE c = NameCol -> name
          [] c = BrandCol -> brand
          [] c = KcalCol -> kcal
          [] c = FiberCol -> fiber
          [] c = Candidates[1] -> s1
          [] c = Candidates[2] -> s2
          [] c = Candidates[3] -> s3
          [] c = SizeCol -> size
          [] c = QtyCol -> qty]

Lo == <<"0", ".", "4">>

Half == <<"0", ".", "5">>

Hi == <<"0", ".", "7">>

BaseName == <<"a">>

BaseBrand == <<"B">>

BaseKcal == <<"5", "2">>

BaseFiber == <<"2", ",", "5", " ", "g">>

BaseSize == <<"1", " ", "g">>

BaseQty == <<"2">>

Million == <<"1", "0", "0", "0", "0", "0", "0">>

\* the rows a file is made of
FullRows ==
    { \* a complete row, every score exactly at the threshold
      Row(BaseName, BaseBrand, BaseKcal, BaseFiber, Half, Half, Half, BaseSize, BaseQty),
      \* no name; a blank name
      Row(NA, BaseBrand, BaseKcal, BaseFiber, Half, Half, Half, BaseSize, BaseQty),
      Row(<<" ">>, BaseBrand, BaseKcal, BaseFiber, Half, Half, Half, BaseSize, BaseQty),
      \* the first row's name in another case and padded
      Row(<<"A", " ">>, BaseBrand, BaseKcal, BaseFiber, Half, Half, Half, BaseSize, BaseQty),
      \* a name that is only a quote, no brand
      Row(<<"'">>, NA, BaseKcal, BaseFiber, Half, Half, Half, BaseSize, BaseQty),
      \* the first row's brand in another case and with a quote
      Row(BaseName, <<"b", "'">>, BaseKcal, BaseFiber, Half, Half, Half, BaseSize, BaseQty),
      \* nutrient cells that are zero or missing
      Row(BaseName, BaseBrand, <<"0">>, NA, Half, Half, Half, BaseSize, BaseQty),
      \* an oversized and a zero nutrient cell
      Row(BaseName, BaseBrand, Million, <<"0">>, Half, Half, Half, BaseSize, BaseQty),
      \* scores that differ between the candidate columns
      Row(BaseName, BaseBrand, BaseKcal, BaseFiber, Lo, Hi, Hi, <<"'">>, NA),
      Row(BaseName, BaseBrand, BaseKcal, BaseFiber, Hi, Lo, NA, NA, <<"1", "5", "0">>),
      \* a score that is no number, a nutrient cell with prefix and unit
      Row(BaseName, BaseBrand, <<"<", " ", "1", " ", "m", "g">>, <<"0">>,
          <<"m", "g">>, Hi, Lo, BaseSize, BaseQty) }

Restrict(r, cols) == [c \in cols |-> r[c]]

\* the rows a file with header cols may hold
Rows(cols) == {Restrict(r, cols) : r \in FullRows}

---------------------------------------------------------------------------
(* Strict variant: prepare_foods_csv_chunks_limited.py *)

\* step 1: name_col.notna() & (name_col.astype(str).str.strip() != "")
Present(rec) ==
    /\ ~isna(rec[NameCol])
    /\ strip(astype_str(rec[NameCol])) # <<>>

\* key = (str(n).strip().lower(), "" if pd.isna(b) else str(b).strip().lower())
DedupKey(rec) ==
    << lower(strip(astype_str(rec[NameCol]))),
       IF isna(rec[BrandCol]) THEN <<>> ELSE lower(strip(rec[BrandCol])) >>

SeenAddForgets(seen, key) == seen

\* seen_pairs.add(key)
SeenAdd(seen, key) == seen \cup {key}

\* step 2: the loop over the chunk's rows, seen_pairs growing as it goes
RECURSIVE DedupLoop(_, _, _)
DedupLoop(idxs, inp, seen) ==
    IF idxs = <<>> THEN [kept |-> <<>>, seen |-> seen]
    ELSE LET key  == DedupKey(inp[Head(idxs)])
             dup  == key \in seen
             rest == DedupLoop(Tail(idxs), inp, SeenAdd(seen, key))
         IN  [kept |-> (IF dup THEN <<>> ELSE <<Head(idxs)>>) \o rest.kept,
              seen |-> rest.seen]

\* step 3: the first candidate column the chunk has, "" when it has none
RECURSIVE FirstPresent(_, _)
FirstPresent(cands, cols) ==
    IF cands = <<>> THEN ""
    ELSE IF Head(cands) \in cols THEN Head(cands)
    ELSE FirstPresent(Tail(cands), cols)

RECURSIVE LastPresent(_, _)
LastPresent(cands, cols) ==
    IF cands = <<>> THEN ""
    ELSE IF cands[Len(cands)] \in cols THEN cands[Len(cands)]
    ELSE LastPresent(SubSeq(cands, 1, Len(cands) - 1), cols)

CompletenessColLast(cols) == LastPresent(Candidates, cols)

CompletenessCol(cols) == FirstPresent(Candidates, cols)

Threshold(x) == GeHalf(x)

\* pd.to_numeric(df[col], errors="coerce").fillna(0) >= 0.5
CompletenessKeep(rec, col) == Threshold(fillna(to_numeric(rec[col]), Zero))

\* step 6: .str.replace('"', "").str.replace("'", "")
RemoveQuotes(s) == str_replace(str_replace(s, "\"", <<>>), "'", <<>>)

SizeSentinel == <<"1", "0", "0", "g", "?">>

\* clean_numeric(df.get(col)): a column the file lacks gives an empty Series,
\* which the DataFrame constructor aligns to NaN in every row
NutrientField(rec, col) ==
    IF col \in DOMAIN rec THEN clean_numeric(rec[col]) ELSE NaNf

\* steps 4 to 6: the cleaned row
MapRow(rec) ==
    LET size == IF isna(rec[SizeCol]) THEN <<>> ELSE rec[SizeCol]
    IN  [kind |-> "row",
         name |-> RemoveQuotes(astype_str(rec[NameCol])),
         brand |-> RemoveQuotes(IF isna(rec[BrandCol]) THEN <<>> ELSE rec[BrandCol]),
         calories |-> NutrientField(rec, KcalCol),
         fiber |-> NutrientField(rec, FiberCol),
         serving_size |-> RemoveQuotes(IF strip(size) # <<>> THEN size ELSE SizeSentinel),
         servings |-> ServingsOf(rec[QtyCol])]

nutrient_cols == {"calories", "fiber"}

IsZero(x) == ~x.nan /\ x.n = 0

AllZeroBelow(row) == \A f \in nutrient_cols : Lt(row[f], 0)

\* step 7: (out[nutrient_cols] == 0).all(axis=1)
AllZero(row) == \A f \in nutrient_cols : IsZero(row[f])

\* df[mask]: the rows the mask keeps, in their order
Filter(idxs, mask) == SelectSeq(idxs, LAMBDA i : i \in mask)

HeaderLine ==
    [kind |-> "header",
     names |-> <<"name", "brand", "calories", "fiber", "serving_size", "servings">>]

to_csv_front(file, rows, header) ==
    (IF header THEN <<HeaderLine>> ELSE <<>>) \o rows \o file

\* out.to_csv(path, header=daHeader, index=False, mode="a")
to_csv(file, rows, header) ==
    file \o (IF header THEN <<HeaderLine>> ELSE <<>>) \o rows

NextHeaderStale(h) == h

\* daHeader = False
NextHeader(h) == FALSE

NoFrames == [presence |-> <<>>, dedup |-> <<>>, completeness |-> <<>>, allzero |-> <<>>]

\* one pass of the loop body of the strict variant over a chunk of n rows
StrictBody(batch) ==
    LET n     == Len(batch)
        inp   == input \o batch
        chunk == [i \in 1..n |-> Len(input) + i]
        d1    == Filter(chunk, {i \in 1..Len(inp) : Present(inp[i])})
        loop  == DedupLoop(d1, inp, seen_pairs)
        d2    == loop.kept
        ccol  == CompletenessCol(columns)
        d3    == IF d2 = <<>> THEN <<>>
                 ELSE IF ccol # ""
                      THEN Filter(d2, {i \in 1..Len(inp) : CompletenessKeep(inp[i], ccol)})
                      ELSE d2
        d7    == IF d3 = <<>> THEN <<>>
                 ELSE Filter(d3, {i \in 1..Len(inp) : ~AllZero(MapRow(inp[i]))})
        out   == [i \in 1..Len(d7) |-> MapRow(inp[d7[i]])]
    IN  /\ input' = inp
        /\ eof' = (n < chunksize)
        /\ seen_pairs' = IF d1 = <<>> THEN seen_pairs ELSE loop.seen
        /\ df' = [presence |-> d1, dedup |-> IF d1 = <<>> THEN <<>> ELSE d2,
                  completeness |-> d3, allzero |-> d7]
        /\ IF d7 = <<>>
           THEN UNCHANGED <<output, written, daHeader, daCount, log>>
           ELSE /\ output' = to_csv(output, out, daHeader)
                /\ written' = written \o d7
                /\ daHeader' = NextHeader(daHeader)
                /\ daCount' = daCount + Len(out)
                /\ log' = Append(log, daCount + Len(out))
        /\ UNCHANGED <<variant, columns, pc>>

StrictChunk ==
    /\ variant = "strict"
    /\ pc = "run"
    /\ ~eof
    /\ \E n \in 1..chunksize :
         /\ Len(input) + n <= MaxRecords
         /\ \E batch \in [1..n -> Rows(columns)] : StrictBody(batch)
    /\ UNCHANGED cellVars

---------------------------------------------------------------------------
(* Simple variant: prepare_foods_csv_chunks.py *)

UnknownProduct ==
    <<"U", "n", "k", "n", "o", "w", "n", " ", "P", "r", "o", "d", "u", "c", "t">>

\* .fillna("").replace(r"^\s*$", "Unknown Product", regex=True)
SimpleName(c) ==
    IF isna(c) \/ strip(c) = <<>> THEN UnknownProduct ELSE c

\* lambda x: 0.0 if (x > 999999 or x < 0) else x
Reject(x) == IF Gt(x, UpperClip) \/ Lt(x, 0) THEN Zero ELSE x

\* the parser leaves a column of a chunk as text when a cell of it is no
\* number; comparing such a cell with a number raises TypeError
IsNumberCell(c) == isna(c) \/ IsNumeral(strip(c))

\* df.get(col) is None for a column the file lacks, and None has neither
\* fillna nor apply: AttributeError
SimpleCrashes(batch) ==
    \/ ~(NutrientSourceCols \subseteq columns)
    \/ \E i \in 1..Len(batch) : ~IsNumberCell(batch[i][KcalCol])

SimpleMapRow(rec) ==
    [kind |-> "row",
     name |-> SimpleName(rec[NameCol]),
     brand |-> rec[BrandCol],
     calories |-> Reject(fillna(to_numeric(rec[KcalCol]), Zero)),
     fiber |-> Reject(to_numeric(rec[FiberCol])),
     serving_size |-> Reject(to_numeric(rec[SizeCol])),
     servings |-> ServingsOf(rec[QtyCol])]

\* daCount += chunksize
SimpleCount(count, out) == count + chunksize

\* one pass of the loop body of the simple variant over a chunk of n rows
SimpleBody(batch) ==
    LET n     == Len(batch)
        inp   == input \o batch
        chunk == [i \in 1..n |-> Len(input) + i]
        out   == [i \in 1..n |-> SimpleMapRow(batch[i])]
    IN  /\ input' = inp
        /\ eof' = (n < chunksize)
        /\ IF SimpleCrashes(batch)
           THEN /\ pc' = "crashed"
                /\ UNCHANGED <<output, written, daHeader, daCount, log>>
           ELSE /\ output' = to_csv(output, out, daHeader)
                /\ written' = written \o chunk
                /\ daCount' = SimpleCount(daCount, out)
                /\ daHeader' = NextHeader(daHeader)
                /\ log' = Append(log, SimpleCount(daCount, out))
                /\ pc' = pc
        /\ UNCHANGED <<variant, columns, seen_pairs, df>>

SimpleChunk ==
    /\ variant = "simple"
    /\ pc = "run"
    /\ ~eof
    /\ \E n \in 1..chunksize :
         /\ Len(input) + n <= MaxRecords
         /\ \E batch \in [1..n -> Rows(columns)] : SimpleBody(batch)
    /\ UNCHANGED cellVars

\* the reader is exhausted: print("Completed Processing!")
Finish ==
    /\ pc = "run"
    /\ pc' = "done"
    /\ UNCHANGED <<variant, columns, input, eof, seen_pairs, daCount, daHeader,
                   output, written, log, df>>
    /\ UNCHANGED cellVars

Init ==
    /\ variant \in {"strict", "simple"}
    /\ columns \in (IF variant = "strict" THEN ColumnSets ELSE SimpleColumnSets)
    /\ input = <<>>
    /\ eof = FALSE
    /\ pc = "run"
    /\ seen_pairs = {}
    /\ daCount = 0
    /\ daHeader = TRUE
    /\ output = <<>>
    /\ written = <<>>
    /\ log = <<>>
    /\ df = NoFrames
    /\ cell = NA
    /\ cleaned = NaNf
    /\ servings = NaNf
    /\ cellpc = {}

Next == StrictChunk \/ SimpleChunk \/ Finish

Spec == Init /\ [][Next]_vars

---------------------------------------------------------------------------
(* Cell-level runs: one raw cell, mapped by clean_numeric and by servings *)

Alphabet == {"0", "2", "5", ",", ".", "-", "<", " ", "g"}

RECURSIVE StringsUpTo(_)
StringsUpTo(k) ==
    IF k = 0 THEN {<<>>}
    ELSE LET shorter == StringsUpTo(k - 1)
         IN  shorter \cup {Append(s, ch) : s \in shorter, ch \in Alphabet}

SampleCells ==
    { <<"2", ",", "5", " ", "g">>,
      <<"<", " ", "1", " ", "m", "g">>,
      <<"1", "5", "0">>,
      <<"9", "9">>,
      <<"9", "9", ".", "5">>,
      <<"1", "0", "0", "0", "0", "0", "0">>,
      <<"9", "9", "9", "9", "9", "9", ".", "5">>,
      <<"a", "b", "c">> }

Cells == {NA} \cup (StringsUpTo(MaxLen) \ {<<>>}) \cup SampleCells

InitCell ==
    /\ variant = "strict"
    /\ columns = {}
    /\ input = <<>>
    /\ eof = FALSE
    /\ pc = "done"
    /\ seen_pairs = {}
    /\ daCount = 0
    /\ daHeader = TRUE
    /\ output = <<>>
    /\ written = <<>>
    /\ log = <<>>
    /\ df = NoFrames
    /\ cell \in Cells
    /\ cleaned = NaNf
    /\ servings = NaNf
    /\ cellpc = {}

CleanStep ==
    /\ "clean_numeric" \notin cellpc
    /\ cleaned' = clean_numeric(cell)
    /\ cellpc' = cellpc \cup {"clean_numeric"}
    /\ UNCHANGED <<cell, servings>>
    /\ UNCHANGED pipeVars

ServingsStep ==
    /\ "servings" \notin cellpc
    /\ servings' = ServingsOf(cell)
    /\ cellpc' = cellpc \cup {"servings"}
    /\ UNCHANGED <<cell, cleaned>>
    /\ UNCHANGED pipeVars

NextCell == CleanStep \/ ServingsStep

SpecCell == InitCell /\ [][NextCell]_vars

---------------------------------------------------------------------------
(* Properties *)

Range(s) == {s[i] : i \in 1..Len(s)}

\* the data rows of the output file, in file order
DataRows == SelectSeq(output, LAMBDA l : l.kind = "row")

\* a name or brand as it is compared: trimmed and lowercased
Norm(s) == lower(strip(s))

\* the identity of a raw row: name and brand, an absent brand being empty
RawKey(rec) ==
    << Norm(astype_str(rec[NameCol])),
       IF isna(rec[BrandCol]) THEN <<>> ELSE Norm(rec[BrandCol]) >>

HasName(rec) == ~isna(rec[NameCol]) /\ strip(rec[NameCol]) # <<>>

\* the rows of the input read so far that have a name and the key of row i
SameKey(i) ==
    {j \in 1..Len(input) : HasName(input[j]) /\ RawKey(input[j]) = RawKey(input[i])}

IsFirstOfKey(i) == HasName(input[i]) /\ \A j \in SameKey(i) : i <= j

\* the positions of the output's data rows that come from an input row of SameKey(i)
RowsOfKey(i) == {k \in 1..Len(written) : written[k] \in SameKey(i)}

\* the score a row is judged by: the first candidate column the file has
ScoreColumn ==
    IF "data_quality_info_score" \in columns THEN "data_quality_info_score"
    ELSE IF "data_quality_score" \in columns THEN "data_quality_score"
    ELSE IF "completeness" \in columns THEN "completeness"
    ELSE ""

\* the score, 0 when it is missing or no number, is at least 0.5
ScoreOk(c) ==
    LET x == to_numeric(c)
    IN  IF x.nan THEN FALSE ELSE 10 * x.n >= 5 * x.d

NutrientsAllZero(row) ==
    /\ ~row.calories.nan /\ row.calories.n = 0
    /\ ~row.fiber.nan /\ row.fiber.n = 0

PassesFilters(rec) ==
    /\ ScoreColumn = "" \/ ScoreOk(rec[ScoreColumn])
    /\ ~NutrientsAllZero(MapRow(rec))

\* C1 as stated: of the rows with a name that share a dedup key, the finished
\* output of the strict variant holds exactly one row, derived from the first
\* of them in input order.
C1_ExactlyOneRowPerKey ==
    (variant = "strict" /\ pc = "done") =>
        \A i \in 1..Len(input) :
            IsFirstOfKey(i) =>
                /\ Cardinality(RowsOfKey(i)) = 1
                /\ \A k \in RowsOfKey(i) : written[k] = i

\* C1 amended: in the strict variant the output never holds more than one row
\* per dedup key, a row it holds is derived from the first input row with that
\* key, and it holds that row exactly when this first row passes the
\* completeness and all-zero filters; later rows with the key are never written.
C1_FirstSeenWins ==
    variant = "strict" =>
        \A i \in 1..Len(input) :
            IsFirstOfKey(i) =>
                /\ Cardinality(RowsOfKey(i)) <= 1
                /\ \A k \in RowsOfKey(i) : written[k] = i
                /\ PassesFilters(input[i]) <=> RowsOfKey(i) # {}

\* two rows with one key in different chunks, the first of them written
C1_Witness ==
    /\ variant = "strict"
    /\ \E i, j \in 1..Len(input) :
         /\ i <= chunksize /\ j > chunksize
         /\ IsFirstOfKey(i) /\ j \in SameKey(i)
         /\ input[i] # input[j]
         /\ i \in Range(written)

\* C2: once anything is written the output starts with the one header line
\* and holds no other, and the header flag is true exactly until the first
\* append: the first append writes the header, later ones only rows.
C2_HeaderOnce ==
    /\ daHeader <=> output = <<>>
    /\ output # <<>> =>
         /\ {k \in 1..Len(output) : output[k].kind = "header"} = {1}
         /\ Len(DataRows) = Len(output) - 1

\* two chunks have been appended
C2_Witness ==
    /\ Len(log) >= 2
    /\ Len(output) >= 3
    /\ output[1].kind = "header"

\* C3 as stated: every row of the output has a name that is non-blank.
C3_NameNonBlank ==
    \A k \in 1..Len(output) :
        output[k].kind = "row" => strip(output[k].name) # <<>>

\* C4 as stated: in both variants no row of the output has all its nutrient
\* fields equal to 0.0.
C4_NoAllZeroRow ==
    \A k \in 1..Len(output) :
        output[k].kind = "row" => ~NutrientsAllZero(output[k])

\* C4 amended: in the strict variant no row of the output has all its
\* nutrient fields equal to 0.0.
C4_StrictNoAllZeroRow ==
    variant = "strict" =>
        \A k \in 1..Len(output) :
            output[k].kind = "row" => ~NutrientsAllZero(output[k])

\* a strict run dropped a row whose nutrient cells clean to 0.0 and wrote
\* another row of the same chunk
C4_Witness ==
    /\ variant = "strict"
    /\ NutrientSourceCols \subseteq columns
    /\ \E i \in Range(df.completeness) :
         /\ i \notin Range(df.allzero)
         /\ i \notin Range(written)
    /\ df.allzero # <<>>

\* C5 as stated: every nutrient field of every row of the output is a number
\* (not NaN) in [0, 999999].
C5_NutrientsInRange ==
    \A k \in 1..Len(output) :
        output[k].kind = "row" =>
            \A f \in {"calories", "fiber"} :
                LET x == output[k][f]
                IN  ~x.nan /\ 0 <= x.n /\ x.n <= 999999 * x.d

\* the serving quantity read the way the numeric normalizer reads a cell:
\* decimal comma accepted, the first numeral taken out of the text around it
NormalizerParse(c) ==
    IF isna(c) THEN NaNf
    ELSE to_numeric(str_extract(str_replace(c, ",", <<".">>)))

InServingsRange(x) == ~x.nan /\ x.n > 0 /\ x.n <= 99 * x.d

\* C6 as stated: servings is the normalizer-style reading of the serving
\* quantity when that is > 0 and <= 99, and 1.0 otherwise.
C6_ServingsNormalizerStyle ==
    "servings" \in cellpc =>
        servings = (IF InServingsRange(NormalizerParse(cell))
                    THEN NormalizerParse(cell) ELSE One)

\* C6 amended: servings is always in (0, 99]; it is the serving quantity read
\* as one plain number (the whole cell, no decimal comma, unit or prefix) when
\* that is > 0 and <= 99, and 1.0 when the cell is absent, not such a number,
\* <= 0 or > 99.
C6_ServingsPlainParse ==
    "servings" \in cellpc =>
        /\ InServingsRange(servings)
        /\ servings = (IF InServingsRange(to_numeric(cell))
                       THEN to_numeric(cell) ELSE One)

\* serving quantity 150 gave 1.0
C6_Witness ==
    /\ "servings" \in cellpc
    /\ cell = <<"1", "5", "0">>
    /\ servings = One

\* C7 as stated: after a batch write the count last printed is the number of
\* data rows appended to the output so far.
C7_ProgressIsRowCount ==
    log # <<>> => log[Len(log)] = Len(DataRows)

\* C8: in the strict variant a row that passed de-duplication is kept by the
\* completeness step exactly when the file has none of the candidate columns
\* or the row's score in the first candidate the file has (in the order
\* data_quality_info_score, data_quality_score, completeness), read as a
\* number with 0 for a missing or unreadable one, is at least 0.5.
C8_Completeness ==
    (variant = "strict" /\ df.dedup # <<>>) =>
        \A i \in Range(df.dedup) :
            i \in Range(df.completeness) <=>
                (ScoreColumn = "" \/ ScoreOk(input[i][ScoreColumn]))

\* a row was rejected on the first candidate although a later one is high,
\* and a row with a score of exactly 0.5 was kept
C8_Witness ==
    /\ variant = "strict"
    /\ CandidateSet \subseteq columns
    /\ \E i \in Range(df.dedup) :
         /\ i \notin Range(df.completeness)
         /\ ScoreOk(input[i]["data_quality_score"])
    /\ \E i \in Range(df.completeness) : input[i]["data_quality_info_score"] = Half

\* the row the variant in use maps an input row to
Mapped(rec) == IF variant = "strict" THEN MapRow(rec) ELSE SimpleMapRow(rec)

C9_Image ==
    /\ Len(DataRows) = Len(written)
    /\ \A k \in 1..Len(written) :
         /\ written[k] \in 1..Len(input)
         /\ DataRows[k] = Mapped(input[written[k]])
    /\ \A k1, k2 \in 1..Len(written) : k1 < k2 => written[k1] < written[k2]

C9_AppendOnly ==
    /\ Len(output) <= Len(output')
    /\ SubSeq(output', 1, Len(output)) = output
    /\ SubSeq(input', 1, Len(input)) = input

\* C9: the data rows of the output are always the mapped rows of a
\* subsequence of the input read so far, in input order and none twice, and
\* a step only appends to the output: the lines already there stay as they are.
C9_OrderPreserved == []C9_Image /\ [][C9_AppendOnly]_vars

\* two chunks were appended, rows of the first chunk dropped in between
C9_Witness ==
    /\ Len(log) >= 2
    /\ Len(written) >= 2
    /\ \E i \in 1..Len(input) : i \notin Range(written) /\ i < written[Len(written)]
    /\ written[1] <= chunksize
    /\ written[Len(written)] > chunksize

\* C10 as stated: no two rows of the strict variant's output have the same
\* written name and brand after trimming and lowercasing.
C10_UniqueWrittenIdentity ==
    variant = "strict" =>
        \A k1, k2 \in 1..Len(DataRows) :
            k1 < k2 =>
                <<Norm(DataRows[k1].name), Norm(DataRows[k1].brand)>>
                    # <<Norm(DataRows[k2].name), Norm(DataRows[k2].brand)>>

=============================================================================
